---- MODULE Spec2Model ----
(***************************************************************************)
(* Model of docs/serve-docs.py: the SwissPipe documentation server         *)
(* launcher.  One process runs main(): parse the port, chdir to the docs   *)
(* directory, extend the handler's extensions_map, bind a TCPServer, print *)
(* the banner, try to open a browser, serve until KeyboardInterrupt.       *)
(*                                                                         *)
(* Strings that the program parses (sys.argv entries) are sequences of     *)
(* one-character strings, so int() is modelled by what it accepts and      *)
(* what it returns.  Request paths are records [stem, ext], the split      *)
(* posixpath.splitext makes.  File contents are sequences of byte values.  *)
(***************************************************************************)
EXTENDS Integers, Sequences, FiniteSets, TLC

(***************************************************************************)
(* Bounds of the model.                                                    *)
(***************************************************************************)
\* longest first command-line argument, in characters
MaxArgLen == 3
\* most requests accepted by the serve loop in one run
MaxRequests == 2

(***************************************************************************)
(* Program constants.                                                      *)
(***************************************************************************)
\* port = 8080
DefaultPort == 8080
\* socket.bind accepts ports 0..65535 and raises OverflowError otherwise
MaxPort == 65535
\* the interpreter dies of SIGINT when KeyboardInterrupt leaves main()
ExitSigint == 130

(***************************************************************************)
(* sys.argv                                                                *)
(***************************************************************************)
\* characters the first argument is drawn from: digits, signs, blank,
\* digit separator, a letter
Chars == {"0", "8", "-", "+", " ", "_", "x"}

\* sys.argv[0]
ScriptName == <<"s">>

\* arguments that may follow the first one
ExtraArgs == {<<"8">>, <<"x">>}

RECURSIVE StringsUpTo(_)
StringsUpTo(n) ==
    IF n = 0 THEN {<<>>}
    ELSE LET shorter == StringsUpTo(n - 1)
         IN  shorter \cup {Append(s, c) : s \in {t \in shorter : Len(t) = n - 1}, c \in Chars}

\* the argument lists the program is started with
ArgLists ==
    {<<ScriptName>>}
    \cup {<<ScriptName, s>> : s \in StringsUpTo(MaxArgLen)}
    \cup {<<ScriptName, s, t>> : s \in StringsUpTo(MaxArgLen), t \in ExtraArgs}

(***************************************************************************)
(* int(s): surrounding whitespace is stripped; then one optional sign;     *)
(* then decimal digits, where a single "_" may stand between two digits.   *)
(* Anything else raises ValueError.                                        *)
(***************************************************************************)
IsSpace(c) == c = " "
IsDigit(c) == c \in {"0", "8"}
DigitVal(c) == IF c = "8" THEN 8 ELSE 0

RECURSIVE LStrip(_)
LStrip(s) ==
    IF s # <<>> /\ IsSpace(Head(s)) THEN LStrip(Tail(s)) ELSE s

RECURSIVE RStrip(_)
RStrip(s) ==
    IF s # <<>> /\ IsSpace(s[Len(s)]) THEN RStrip(SubSeq(s, 1, Len(s) - 1)) ELSE s

Strip(s) == RStrip(LStrip(s))

HasSign(s) == s # <<>> /\ Head(s) \in {"-", "+"}

\* the digits of the literal, after the sign
Unsigned(s) == IF HasSign(s) THEN Tail(s) ELSE s

ValidDigits(d) ==
    /\ d # <<>>
    /\ IsDigit(d[1])
    /\ IsDigit(d[Len(d)])
    /\ \A i \in 1..Len(d) : IsDigit(d[i]) \/ d[i] = "_"
    /\ \A i \in 1..(Len(d) - 1) : ~(d[i] = "_" /\ d[i + 1] = "_")

RECURSIVE DigitsValue(_, _)
DigitsValue(d, acc) ==
    IF d = <<>> THEN acc
    ELSE IF Head(d) = "_" THEN DigitsValue(Tail(d), acc)
    ELSE DigitsValue(Tail(d), 10 * acc + DigitVal(Head(d)))

\* int(s) returns a value (no ValueError)
IntParses(s) == ValidDigits(Unsigned(Strip(s)))

\* the value int(s) returns, when it returns one
IntValue(s) ==
    LET t == Strip(s)
        v == DigitsValue(Unsigned(t), 0)
    IN  IF HasSign(t) /\ Head(t) = "-" THEN 0 - v ELSE v

(***************************************************************************)
(* The file system the server reads.  DocsDir is Path(__file__).parent;    *)
(* InvocationDir is the directory the process was started in.  Both hold   *)
(* a file named api-documentation.html, with different bytes.              *)
(***************************************************************************)
DocsDir == "docs"
InvocationDir == "invocation"

ApiDocPath == [stem |-> "/api-documentation", ext |-> ".html"]
OpenApiPath == [stem |-> "/openapi", ext |-> ".yaml"]
YmlPath == [stem |-> "/workflow", ext |-> ".yml"]
UpperYamlPath == [stem |-> "/EXAMPLE", ext |-> ".YAML"]
ReadmePath == [stem |-> "/README", ext |-> ".md"]
MissingPath == [stem |-> "/missing", ext |-> ".html"]

\* paths a client may request
Paths == {ApiDocPath, OpenApiPath, YmlPath, UpperYamlPath, ReadmePath, MissingPath}

DocsFiles ==
    (ApiDocPath :> <<60, 104, 62>>) @@ (OpenApiPath :> <<111, 58>>)
    @@ (YmlPath :> <<119, 58>>) @@ (UpperYamlPath :> <<69, 58>>)
    @@ (ReadmePath :> <<35>>)

InvocationFiles == (ApiDocPath :> <<120>>)

\* the regular files under a directory, with their bytes
Files(dir) == IF dir = DocsDir THEN DocsFiles ELSE InvocationFiles

(***************************************************************************)
(* Content types.  SimpleHTTPRequestHandler.guess_type looks the extension *)
(* up in extensions_map, then its lower-case form, then asks the           *)
(* platform's mimetypes table, then falls back to                          *)
(* application/octet-stream.                                               *)
(***************************************************************************)
\* SimpleHTTPRequestHandler.extensions_map as the library defines it
LibraryExtensionsMap ==
    (".gz" :> "application/gzip") @@ (".Z" :> "application/octet-stream")
    @@ (".bz2" :> "application/x-bzip2") @@ (".xz" :> "application/x-xz")

\* the platform's mimetypes table: some platforms know YAML, some do not
BaseTypesMap == (".html" :> "text/html") @@ (".md" :> "text/markdown")
PlatformTypesMaps ==
    { BaseTypesMap,
      (".yaml" :> "text/x-yaml") @@ (".yml" :> "text/x-yaml") @@ BaseTypesMap }

\* str.lower() on the extensions that occur
Lower(ext) ==
    CASE ext = ".YAML" -> ".yaml"
      [] ext = ".Z" -> ".z"
      [] OTHER -> ext

GuessType(emap, tmap, ext) ==
    IF ext \in DOMAIN emap THEN emap[ext]
    ELSE IF Lower(ext) \in DOMAIN emap THEN emap[Lower(ext)]
    ELSE IF Lower(ext) \in DOMAIN tmap THEN tmap[Lower(ext)]
    ELSE "application/octet-stream"

\* the entries main() adds: dict.update keeps every other key
YamlOverrides == (".yaml" :> "text/yaml") @@ (".yml" :> "text/yaml")

\* a variant that registers ".yaml" and forgets ".yml"
UpdateExtensionsMapYamlOnly(emap) == (".yaml" :> "text/yaml") @@ emap

\* handler.extensions_map.update({...})
UpdateExtensionsMap(emap) == YamlOverrides @@ emap

\* what do_GET sends for a path, resolved against the working directory
Response(dir, emap, tmap, path) ==
    IF path \in DOMAIN Files(dir)
    THEN [path |-> path, sent |-> TRUE, status |-> 200,
          ctype |-> GuessType(emap, tmap, path.ext), body |-> Files(dir)[path]]
    ELSE [path |-> path, sent |-> TRUE, status |-> 404,
          ctype |-> "text/html;charset=utf-8", body |-> <<>>]

\* what the client has when the connection broke while the handler ran
Aborted(path) ==
    [path |-> path, sent |-> FALSE, status |-> 0, ctype |-> "", body |-> <<>>]

(***************************************************************************)
(* State of one run of main().                                             *)
(***************************************************************************)
VARIABLES
    argv,            \* sys.argv
    types_map,       \* the platform's mimetypes table
    pc,              \* the statement main() is at
    port,            \* local variable port
    cwd,             \* the process's working directory
    extensions_map,  \* SimpleHTTPRequestHandler.extensions_map
    sock,            \* the listening socket: "none", "open", "closed"
    binds,           \* the ports passed to bind, in order
    bindResult,      \* how the TCPServer constructor ended: "none" before
    out,             \* what has been printed, in order
    launches,        \* calls of webbrowser.open
    browserResult,   \* how webbrowser.open ended: "none" before the call
    req,             \* <<path>> while a request is being handled
    resp,            \* <<response>> of the latest request
    handled,         \* requests finished
    failed,          \* requests finished without a 200 response
    interruptedAt,   \* where KeyboardInterrupt was raised: "none" if never
    exitStatus       \* <<status>> once the process has exited

vars == <<argv, types_map, pc, port, cwd, extensions_map, sock, binds,
          bindResult, out,
          launches, browserResult, req, resp, handled, failed, interruptedAt,
          exitStatus>>

Init ==
    /\ argv \in ArgLists
    /\ types_map \in PlatformTypesMaps
    /\ pc = "parse"
    /\ port = DefaultPort
    /\ cwd = InvocationDir
    /\ extensions_map = LibraryExtensionsMap
    /\ sock = "none"
    /\ binds = <<>>
    /\ bindResult = "none"
    /\ out = <<>>
    /\ launches = 0
    /\ browserResult = "none"
    /\ req = <<>>
    /\ resp = <<>>
    /\ handled = 0
    /\ failed = 0
    /\ interruptedAt = "none"
    /\ exitStatus = <<>>

\* the process ends: status, last output, nothing in flight
Exit(status, line) ==
    /\ pc' = "done"
    /\ exitStatus' = <<status>>
    /\ out' = Append(out, line)
    /\ req' = <<>>

\* a variant that swallows the ValueError and goes on with the default
ParsePortIgnoreError ==
    /\ pc = "parse"
    /\ port' = IF Len(argv) > 1 /\ IntParses(argv[2])
               THEN IntValue(argv[2]) ELSE port
    /\ pc' = "chdir"
    /\ UNCHANGED <<exitStatus, out, req>>
    /\ UNCHANGED <<argv, types_map, cwd, extensions_map, sock, binds, bindResult,
                   launches, browserResult, resp, handled, failed,
                   interruptedAt>>

\* a variant that reads the last argument instead of the first
ParsePortLastArg ==
    /\ pc = "parse"
    /\ IF Len(argv) > 1 /\ ~IntParses(argv[Len(argv)])
       THEN /\ Exit(1, "Error: Port must be a valid integer")
            /\ UNCHANGED port
       ELSE /\ port' = IF Len(argv) > 1 THEN IntValue(argv[Len(argv)]) ELSE port
            /\ pc' = "chdir"
            /\ UNCHANGED <<exitStatus, out, req>>
    /\ UNCHANGED <<argv, types_map, cwd, extensions_map, sock, binds, bindResult,
                   launches, browserResult, resp, handled, failed,
                   interruptedAt>>

\* a variant that also rejects an integer that is not positive
ParsePortPositive ==
    /\ pc = "parse"
    /\ IF Len(argv) > 1 /\ (~IntParses(argv[2]) \/ IntValue(argv[2]) <= 0)
       THEN /\ Exit(1, "Error: Port must be a valid integer")
            /\ UNCHANGED port
       ELSE /\ port' = IF Len(argv) > 1 THEN IntValue(argv[2]) ELSE port
            /\ pc' = "chdir"
            /\ UNCHANGED <<exitStatus, out, req>>
    /\ UNCHANGED <<argv, types_map, cwd, extensions_map, sock, binds, bindResult,
                   launches, browserResult, resp, handled, failed,
                   interruptedAt>>

\* if len(sys.argv) > 1: try: port = int(sys.argv[1])
\* except ValueError: print(...); sys.exit(1)
ParsePort ==
    /\ pc = "parse"
    /\ IF Len(argv) > 1 /\ ~IntParses(argv[2])
       THEN /\ Exit(1, "Error: Port must be a valid integer")
            /\ UNCHANGED port
       ELSE /\ port' = IF Len(argv) > 1 THEN IntValue(argv[2]) ELSE port
            /\ pc' = "chdir"
            /\ UNCHANGED <<exitStatus, out, req>>
    /\ UNCHANGED <<argv, types_map, cwd, extensions_map, sock, binds, bindResult,
                   launches,
                   browserResult, resp, handled, failed, interruptedAt>>

\* a variant that leaves the working directory where it was
ChdirSkipped ==
    /\ pc = "chdir"
    /\ pc' = "mime"
    /\ UNCHANGED <<argv, types_map, port, cwd, extensions_map, sock, binds,
                   bindResult, out, launches, browserResult, req, resp,
                   handled, failed, interruptedAt, exitStatus>>

\* os.chdir(Path(__file__).parent)
Chdir ==
    /\ pc = "chdir"
    /\ cwd' = DocsDir
    /\ pc' = "mime"
    /\ UNCHANGED <<argv, types_map, port, extensions_map, sock, binds, bindResult,
                   out,
                   launches, browserResult, req, resp, handled, failed,
                   interruptedAt, exitStatus>>

\* handler.extensions_map.update({'.yaml': ..., '.yml': ...})
MimeOverride ==
    /\ pc = "mime"
    /\ extensions_map' = UpdateExtensionsMap(extensions_map)
    /\ pc' = "bind"
    /\ UNCHANGED <<argv, types_map, port, cwd, sock, binds, bindResult,
                   out, launches,
                   browserResult, req, resp, handled, failed, interruptedAt,
                   exitStatus>>

\* the results socketserver.TCPServer(("", port), handler) can have: the
\* bind raises OverflowError for a port outside 0..65535 and may raise
\* OSError (address in use, permission denied) for any other
BindOutcomes(p) ==
    IF p \in 0..MaxPort THEN {"bound", "OSError"} ELSE {"OverflowError"}

\* a variant that tries the bind again after a failure
BindRetry ==
    /\ pc = "bind"
    /\ binds' = Append(binds, port)
    /\ \E outcome \in BindOutcomes(port) :
          /\ bindResult' = outcome
          /\ IF outcome = "bound"
             THEN /\ sock' = "open"
                  /\ pc' = "banner"
             ELSE /\ sock' = "closed"
                  /\ pc' = "bind"
    /\ UNCHANGED <<argv, types_map, port, cwd, extensions_map, launches,
                   browserResult, resp, handled, failed, interruptedAt,
                   exitStatus, out, req>>

\* with socketserver.TCPServer(("", port), handler) as httpd:
\* a failed constructor closes its socket and the exception leaves main()
Bind ==
    /\ pc = "bind"
    /\ binds' = Append(binds, port)
    /\ \E outcome \in BindOutcomes(port) :
          /\ bindResult' = outcome
          /\ IF outcome = "bound"
             THEN /\ sock' = "open"
                  /\ pc' = "banner"
                  /\ UNCHANGED <<exitStatus, out, req>>
             ELSE /\ sock' = "closed"
                  /\ Exit(1, "Traceback")
    /\ UNCHANGED <<argv, types_map, port, cwd, extensions_map, launches,
                   browserResult, resp, handled, failed, interruptedAt>>

\* the five banner lines; the first holds characters that standard output
\* may be unable to encode, and then print raises UnicodeEncodeError, the
\* with block closes the socket and the exception leaves main()
Banner ==
    /\ pc = "banner"
    /\ \E encodable \in BOOLEAN :
          IF encodable
          THEN /\ out' = Append(out, "Serving at")
               /\ pc' = "browser"
               /\ UNCHANGED <<sock, exitStatus, req>>
          ELSE /\ sock' = "closed"
               /\ Exit(1, "Traceback")
    /\ UNCHANGED <<argv, types_map, port, cwd, extensions_map, binds, bindResult,
                   launches,
                   browserResult, resp, handled, failed, interruptedAt>>

\* how webbrowser.open(url) can end: True, False (no browser could be
\* launched), or an exception
BrowserOutcomes == {"opened", "unavailable", "raised"}

\* print("Opening ..."); try: webbrowser.open(doc_url)
\* except Exception as e: print("Could not open browser automatically")
OpenBrowser ==
    /\ pc = "browser"
    /\ launches' = launches + 1
    /\ \E r \in BrowserOutcomes :
          /\ browserResult' = r
          /\ out' = IF r = "raised"
                    THEN out \o <<"Opening documentation in browser",
                                  "Could not open browser automatically">>
                    ELSE Append(out, "Opening documentation in browser")
    /\ pc' = "serve"
    /\ UNCHANGED <<argv, types_map, port, cwd, extensions_map, sock, binds,
                   bindResult, req,
                   resp, handled, failed, interruptedAt, exitStatus>>

\* httpd.serve_forever(): a connection is accepted and its request read
Accept ==
    /\ pc = "serve"
    /\ handled < MaxRequests
    /\ \E p \in Paths : req' = <<p>>
    /\ pc' = "handle"
    /\ UNCHANGED <<argv, types_map, port, cwd, extensions_map, sock, binds, bindResult,
                   out,
                   launches, browserResult, resp, handled, failed,
                   interruptedAt, exitStatus>>

\* SimpleHTTPRequestHandler.do_GET answers and the loop goes on
Respond ==
    /\ pc = "handle"
    /\ LET r == Response(cwd, extensions_map, types_map, req[1])
       IN  /\ resp' = <<r>>
           /\ failed' = IF r.status = 200 THEN failed ELSE failed + 1
    /\ handled' = handled + 1
    /\ req' = <<>>
    /\ pc' = "serve"
    /\ UNCHANGED <<argv, types_map, port, cwd, extensions_map, sock, binds, bindResult,
                   out,
                   launches, browserResult, interruptedAt, exitStatus>>

\* a variant in which the handler's exception leaves serve_forever
ClientAbortFatal ==
    /\ pc = "handle"
    /\ resp' = <<Aborted(req[1])>>
    /\ failed' = failed + 1
    /\ handled' = handled + 1
    /\ sock' = "closed"
    /\ Exit(1, "Traceback")
    /\ UNCHANGED <<argv, types_map, port, cwd, extensions_map, binds, bindResult,
                   launches, browserResult, interruptedAt>>

\* the handler raises (the client went away): socketserver's handle_error
\* reports it and the loop goes on
ClientAbort ==
    /\ pc = "handle"
    /\ resp' = <<Aborted(req[1])>>
    /\ failed' = failed + 1
    /\ handled' = handled + 1
    /\ req' = <<>>
    /\ pc' = "serve"
    /\ UNCHANGED <<argv, types_map, port, cwd, extensions_map, sock, binds, bindResult,
                   out,
                   launches, browserResult, interruptedAt, exitStatus>>

\* the statements of the with block, where the socket is open
InWith == {"banner", "browser", "serve", "handle"}

\* the statements inside try: httpd.serve_forever()
InServeTry == {"serve", "handle"}

\* a variant without the with block: only the handler of the serve loop
\* closes the socket
InterruptLeak ==
    /\ pc \in InWith
    /\ interruptedAt' = pc
    /\ sock' = IF pc \in InServeTry THEN "closed" ELSE sock
    /\ IF pc \in InServeTry
       THEN Exit(0, "Server stopped")
       ELSE Exit(ExitSigint, "Traceback")
    /\ UNCHANGED <<argv, types_map, port, cwd, extensions_map, binds, bindResult,
                   launches, browserResult, resp, handled, failed>>

\* KeyboardInterrupt raised while the with block runs.  Inside the try
\* around serve_forever it is caught and the farewell printed; elsewhere
\* ("except Exception" does not catch it) it leaves main().  Either way the
\* with block closes the socket.
Interrupt ==
    /\ pc \in InWith
    /\ interruptedAt' = pc
    /\ sock' = "closed"
    /\ IF pc \in InServeTry
       THEN Exit(0, "Server stopped")
       ELSE Exit(ExitSigint, "Traceback")
    /\ UNCHANGED <<argv, types_map, port, cwd, extensions_map, binds, bindResult,
                   launches,
                   browserResult, resp, handled, failed>>

Next ==
    \/ ParsePort
    \/ Chdir
    \/ MimeOverride
    \/ Bind
    \/ Banner
    \/ OpenBrowser
    \/ Accept
    \/ Respond
    \/ ClientAbort
    \/ Interrupt

Spec == Init /\ [][Next]_vars

(***************************************************************************)
(* Vocabulary of the properties.                                           *)
(***************************************************************************)
Printed(line) == \E i \in 1..Len(out) : out[i] = line

PortError == "Error: Port must be a valid integer"

\* a first argument is given and int() rejects it
BadPortArg == Len(argv) > 1 /\ ~IntParses(argv[2])

\* a first argument is given and int() returns zero or a negative number
NonPositivePortArg ==
    Len(argv) > 1 /\ IntParses(argv[2]) /\ IntValue(argv[2]) <= 0

BindFailed == bindResult \in {"OSError", "OverflowError"}

BrowserFailed == browserResult \in {"unavailable", "raised"}

(***************************************************************************)
(* C1: whenever the first argument does not parse as an integer, the run   *)
(* never leaves the parse step except by exiting: no socket is created or  *)
(* bound, the working directory is unchanged, no banner is printed, no     *)
(* browser is launched; and once it has exited, the only output is the     *)
(* error "Port must be a valid integer" and the status is 1.               *)
(***************************************************************************)
C1_BadPortExitsBeforeBind ==
    BadPortArg =>
        /\ pc \in {"parse", "done"}
        /\ sock = "none" /\ binds = <<>> /\ bindResult = "none"
        /\ cwd = InvocationDir
        /\ ~Printed("Serving at")
        /\ launches = 0 /\ browserResult = "none"
        /\ handled = 0 /\ req = <<>>
        /\ pc = "done" => exitStatus = <<1>> /\ out = <<PortError>>

\* a run with a malformed sign-and-digit argument has exited
C1_Witness ==
    /\ pc = "done"
    /\ Len(argv) = 2 /\ argv[2] = <<"8", "-">>
    /\ exitStatus = <<1>>

(***************************************************************************)
(* C2: the port passed to bind depends on the argument list only: 8080     *)
(* with no argument, otherwise the integer value of the first argument;    *)
(* further arguments do not matter.  The values of some literals are       *)
(* spelled out.                                                            *)
(***************************************************************************)
C2_BoundPortIsFirstArg ==
    binds # <<>> =>
        /\ Len(binds) = 1
        /\ Len(argv) = 1 => binds[1] = 8080
        /\ Len(argv) > 1 => IntParses(argv[2]) /\ binds[1] = IntValue(argv[2])
        /\ (Len(argv) > 1 /\ argv[2] = <<"8", "0">>) => binds[1] = 80
        /\ (Len(argv) > 1 /\ argv[2] = <<"8", "_", "0">>) => binds[1] = 80
        /\ (Len(argv) > 1 /\ argv[2] = <<" ", "+", "8">>) => binds[1] = 8
        /\ (Len(argv) > 1 /\ argv[2] = <<"-", "8", " ">>) => binds[1] = 0 - 8
        /\ (Len(argv) > 1 /\ argv[2] = <<"0", "0", "8">>) => binds[1] = 8

\* port 80 was passed to bind although a second, different argument follows
C2_Witness ==
    /\ Len(argv) = 3 /\ argv[2] = <<"8", "0">> /\ argv[3] = <<"x">>
    /\ binds = <<80>>

(***************************************************************************)
(* C3: once the socket is bound, an interrupt at any later statement -     *)
(* banner, browser launch, idle serve loop, request being handled - ends   *)
(* the run cleanly: socket closed, farewell printed last, exit status 0.   *)
(***************************************************************************)
C3_InterruptIsCleanShutdown ==
    interruptedAt # "none" =>
        /\ pc = "done"
        /\ sock = "closed"
        /\ out # <<>> /\ out[Len(out)] = "Server stopped"
        /\ exitStatus = <<0>>

\* What the code does on an interrupt, by the statement it arrives at: in
\* the serve loop the shutdown is clean; at the banner or the browser
\* launch the socket is closed but the exception leaves main().
InterruptOutcomeByStatement ==
    /\ interruptedAt \in InServeTry =>
          /\ sock = "closed" /\ exitStatus = <<0>>
          /\ out[Len(out)] = "Server stopped"
    /\ interruptedAt \in {"banner", "browser"} =>
          /\ sock = "closed" /\ exitStatus = <<ExitSigint>>
          /\ ~Printed("Server stopped")

(***************************************************************************)
(* C4: every failure of the browser launch - webbrowser.open returning     *)
(* False as well as raising - is logged with "Could not open browser       *)
(* automatically" and leaves the server running: until interrupted the     *)
(* process is in the serve loop with the socket open.                      *)
(***************************************************************************)
C4_BrowserFailureLoggedAndSurvived ==
    BrowserFailed =>
        /\ Printed("Could not open browser automatically")
        /\ interruptedAt = "none" => pc \in InServeTry /\ sock = "open"

\* What the code does on a failed browser launch: the server survives
\* either kind of failure, and only a raised exception is logged.
BrowserFailureOutcome ==
    /\ (BrowserFailed /\ interruptedAt = "none") =>
          pc \in InServeTry /\ sock = "open"
    /\ Printed("Could not open browser automatically")
          <=> browserResult = "raised"

(***************************************************************************)
(* C5: at most one bind attempt is made in a run; when it fails the        *)
(* process has exited with a non-zero status, the socket is not open, and  *)
(* no banner was printed, no browser launched, no request accepted.        *)
(***************************************************************************)
C5_BindFailureIsFatal ==
    /\ Len(binds) <= 1
    /\ BindFailed =>
        /\ pc = "done"
        /\ exitStatus # <<>> /\ exitStatus[1] # 0
        /\ sock = "closed"
        /\ ~Printed("Serving at")
        /\ launches = 0 /\ browserResult = "none"
        /\ handled = 0 /\ req = <<>> /\ resp = <<>>

\* a bind on a port inside the valid range failed (address in use) and the
\* process is gone
C5_Witness ==
    /\ bindResult = "OSError"
    /\ binds = <<8080>>
    /\ pc = "done"

(***************************************************************************)
(* C6 as stated: whenever bind is attempted the port is a positive         *)
(* integer, and an argument that parses to an integer that is not          *)
(* positive never gets a server started.                                   *)
(***************************************************************************)
C6_PortIsPositive ==
    /\ \A i \in 1..Len(binds) : binds[i] > 0
    /\ NonPositivePortArg => bindResult # "bound"

(***************************************************************************)
(* C6 amended: the port is validated as an integer only.  An argument that *)
(* parses to zero or to a negative integer is not rejected by the parse    *)
(* step (no "Port must be a valid integer", the run goes on to the bind    *)
(* with that value).  A port outside 0..65535 always fails the one bind    *)
(* attempt with exit status 1; a socket is only ever bound on a port       *)
(* inside 0..65535, 0 included.                                            *)
(***************************************************************************)
C6_PortIsOnlyParsed ==
    /\ (NonPositivePortArg /\ pc # "parse") =>
          /\ ~Printed(PortError)
          /\ port = IntValue(argv[2])
          /\ pc = "done" => binds = <<port>>
    /\ (binds # <<>> /\ binds[1] \notin 0..MaxPort) =>
          /\ bindResult = "OverflowError"
          /\ sock = "closed" /\ pc = "done" /\ exitStatus = <<1>>
    /\ bindResult = "bound" => binds[1] \in 0..MaxPort

\* the argument "0" got a server that has answered a request
C6_Witness ==
    /\ Len(argv) = 2 /\ argv[2] = <<"0">>
    /\ binds = <<0>> /\ sock = "open"
    /\ pc = "serve" /\ handled > 0

(***************************************************************************)
(* C7: a request for a path that does not exist is answered 404, a request *)
(* for a file of the docs directory is answered 200 with the file's exact  *)
(* bytes, whatever failed before it; and after any failed request the      *)
(* process is still in the serve loop with the socket open unless it was   *)
(* interrupted.                                                            *)
(***************************************************************************)
C7_RequestErrorsKeepServing ==
    /\ (resp # <<>> /\ resp[1].sent) =>
          IF resp[1].path \in DOMAIN DocsFiles
          THEN resp[1].status = 200 /\ resp[1].body = DocsFiles[resp[1].path]
          ELSE resp[1].status = 404
    /\ (resp # <<>> /\ resp[1].sent /\ resp[1].path = MissingPath) =>
          resp[1].status = 404
    /\ (resp # <<>> /\ resp[1].sent /\ resp[1].path = ApiDocPath) =>
          resp[1].status = 200 /\ resp[1].body = <<60, 104, 62>>
    /\ (failed > 0 /\ interruptedAt = "none") =>
          pc \in InServeTry /\ sock = "open"

\* the landing page was served after an earlier request had failed
C7_Witness ==
    /\ failed > 0
    /\ resp # <<>> /\ resp[1].path = ApiDocPath /\ resp[1].status = 200
    /\ pc = "serve"

(***************************************************************************)
(* C8: from the bind on, extensions_map maps .yaml and .yml to text/yaml;  *)
(* every file served with one of these extensions has content type         *)
(* text/yaml, and every other file has the type it would have had without  *)
(* the override (.html is text/html).                                      *)
(***************************************************************************)
C8_YamlServedAsTextYaml ==
    /\ bindResult # "none" =>
          /\ {".yaml", ".yml"} \subseteq DOMAIN extensions_map
          /\ extensions_map[".yaml"] = "text/yaml"
          /\ extensions_map[".yml"] = "text/yaml"
    /\ (resp # <<>> /\ resp[1].sent /\ resp[1].status = 200) =>
          /\ Lower(resp[1].path.ext) \in {".yaml", ".yml"}
                => resp[1].ctype = "text/yaml"
          /\ Lower(resp[1].path.ext) \notin {".yaml", ".yml"}
                => resp[1].ctype =
                     GuessType(LibraryExtensionsMap, types_map, resp[1].path.ext)
          /\ resp[1].path.ext = ".html" => resp[1].ctype = "text/html"

\* /workflow.yml was served as text/yaml on a platform whose own table
\* says text/x-yaml
C8_Witness ==
    /\ resp # <<>> /\ resp[1].path = YmlPath /\ resp[1].ctype = "text/yaml"
    /\ ".yml" \in DOMAIN types_map /\ types_map[".yml"] = "text/x-yaml"

(***************************************************************************)
(* C9: the listening socket is open exactly while the with block runs: no  *)
(* run that has ended leaves it open, whatever ended it, and it is open    *)
(* at every statement of the with block, the serve loop included.          *)
(***************************************************************************)
C9_SocketIsScoped ==
    /\ pc = "done" => sock # "open"
    /\ pc \in InWith => sock = "open"
    /\ sock = "open" => pc \in InWith

\* a run ended by an interrupt outside the serve loop's try, socket closed
C9_Witness ==
    /\ pc = "done"
    /\ interruptedAt \in {"banner", "browser"}
    /\ sock = "closed"

(***************************************************************************)
(* C10: the startup steps happen in one order: parse, chdir, MIME          *)
(* override, bind, banner, at most one browser launch, serve loop.  Each   *)
(* step's effect is absent while the effect of the step before it is       *)
(* absent; the browser is launched only after a successful bind; no        *)
(* request is accepted before the working directory is the docs directory  *)
(* and the browser launch has ended.                                       *)
(***************************************************************************)
C10_StartupOrder ==
    /\ pc = "parse" => cwd = InvocationDir
    /\ cwd = InvocationDir => extensions_map = LibraryExtensionsMap
    /\ extensions_map = LibraryExtensionsMap => binds = <<>> /\ sock = "none"
    /\ bindResult # "bound" => ~Printed("Serving at")
    /\ ~Printed("Serving at") => launches = 0 /\ browserResult = "none"
    /\ launches <= 1
    /\ launches = 1 <=> browserResult # "none"
    /\ launches = 0 => handled = 0 /\ req = <<>> /\ resp = <<>>
    /\ (req # <<>> \/ handled > 0) =>
          /\ cwd = DocsDir
          /\ bindResult = "bound"
          /\ browserResult # "none"

\* a request has been answered after the complete startup
C10_Witness ==
    /\ pc = "serve" /\ handled > 0
    /\ launches = 1 /\ cwd = DocsDir
    /\ Printed("Serving at")

====
